---- MODULE Spec2Model ----
(***************************************************************************)
(* Model of the Movesense datalogger command-line client.                  *)
(*                                                                         *)
(* Four views are modelled, each with its own specification:               *)
(*   FleetSpec - datalogger_tool.py: main, all_sensors_command and the     *)
(*               *_command wrappers (the retry supervisor);                *)
(*   Spec      - one tool-level operation on one serial: the SensorCommand *)
(*               session of sensor_command.py (open, commands, fetch       *)
(*               stream, close) against a device that answers over BLE     *)
(*               notifications;                                            *)
(*   ScanSpec  - the discovery of _discover_and_connect, advertisement by  *)
(*               advertisement;                                            *)
(*   ApiSpec   - a caller that drives the methods of a SensorCommand       *)
(*               directly (get_status, get_resource, subscribe,            *)
(*               unsubscribe, execute_command, disconnect).                *)
(***************************************************************************)
EXTENDS Integers, Sequences, FiniteSets, TLC

VARIABLES
    \* ---- datalogger_tool.py: supervisor state ----
    fpc,            \* position of the CLI process
    command,        \* args.command
    force,          \* args.force
    retrys,         \* all_sensors_command's retrys parameter
    retry_count,    \* all_sensors_command local
    serials,        \* all_sensors_command local: the list of the current round
    next_serials,   \* all_sensors_command local: failures collected this round
    idx,            \* position of the for loop in serials
    exit_code,      \* exit status of the process: {} while it runs
    via_main,       \* all_sensors_command was called by main
    \* history of the supervisor run (not program state)
    origSerials,    \* args.serial_numbers
    calls,          \* serial -> number of command_func invocations
    lastOutcome,    \* serial -> outcome of the operation's last attempt
    lastRet,        \* serial -> what command_func last returned for it
    roundFailed,    \* serials whose operation failed in the current round
    rounds,         \* number of rounds begun
    sleeps,         \* number of 5 s waits performed
    prompted,       \* serial -> number of erase confirmation prompts
    opened,         \* serial -> number of sessions opened by the run
    config_data,    \* configure_device local: the payload last built (<<>>: none)
    origPath,       \* args.path as the command line gave it
    lastInput,      \* what the operator typed at the last erase prompt
    lastFailure     \* how the last call of the command function failed:
                    \* "protocol" (protocol error), "other" or "none"

VARIABLE
    args_path       \* args.path: the list object handed to configure_device

fleetVars == <<fpc, command, force, retrys, retry_count, serials, next_serials,
               idx, exit_code, via_main, origSerials, calls, lastOutcome, lastRet,
               roundFailed,
               rounds, sleeps, prompted, opened, config_data, origPath,
               lastInput, lastFailure>>

VARIABLES
    \* ---- datalogger_tool.py / sensor_command.py: one session ----
    spc,            \* position of the session task
    op,             \* the tool-level operation being run
    cur,            \* the SensorCommand method whose send_command is in progress
    set_time,       \* SensorCommand.set_time
    is_connected,   \* SensorCommand.is_connected
    hello_ref,      \* SensorCommand.hello_ref: {} while the attribute is unset
    response_queue, \* SensorCommand.response_queue
    response,       \* the frame the last send_command returned
    lastcmd,        \* the command bytes of the last send_command
    retval,         \* get_status local: the status being assembled
    log_id,         \* datalogger_tool.fetch_data local
    last_offset,    \* SensorCommand.fetch_data local
    fetched_files,  \* datalogger_tool.fetch_data local
    result,         \* value returned by the tool-level operation
    sresult,        \* value returned by the last SensorCommand.fetch_data
    excn,           \* last exception raised in the session task ("" if none)
    files,          \* the file system: log id -> content of its .sbem file
    \* ---- the transport and the device ----
    link,           \* BLE link: "none", "up", "closed" (by client), "lost"
    notifying,      \* notifications subscribed on the notify characteristic
    scanning,       \* a scanner is running
    owed,           \* command the device has received and not yet answered
    streaming,      \* the device is emitting log data frames
    nframes,        \* number of data frames the device has emitted
    \* history of the session (not program state)
    written,        \* command byte strings handed to write_gatt_char, in order
    ioerr,          \* the sink raised during the current fetch
    loop_end,       \* the fetch_log result that ended the fetch loop
    streamlog,      \* payloads of the data frames the streaming loop of the
                    \* current fetch_log took from the queue, in order
    settled         \* how the wait of each written command ended, in order

sessVars == <<spc, op, cur, set_time, is_connected, hello_ref, response_queue,
              response, lastcmd, retval, log_id, last_offset, fetched_files,
              result, sresult, excn, files, link, notifying, scanning, owed,
              streaming, nframes, written, ioerr, loop_end, streamlog,
              settled>>

VARIABLES
    \* ---- sensor_command.py: _discover_and_connect in detail ----
    end_of_serial,  \* SensorCommand.end_of_serial
    device_found,   \* the asyncio.Event device_found is set
    target_device,  \* the nonlocal target_device: PyNone until a match
    device_address, \* SensorCommand.device_address: PyNone until assigned
    adverts,        \* history: the advertisements delivered to the callback
    \* ---- a caller of the SensorCommand methods ----
    call,           \* the method call in progress and its arguments
    ncalls          \* number of method calls made on the session

apiVars == <<end_of_serial, device_found, target_device, device_address,
             adverts, call, ncalls>>

vars == <<fleetVars, sessVars, args_path, apiVars>>

-----------------------------------------------------------------------------
(* Bounds of the model                                                      *)

\* retry counts tried for direct calls of all_sensors_command
MaxRetrys == 2
\* number of logs the device holds
MaxLogs == 1
\* number of data frames the device emits in one session
MaxFrames == 2

-----------------------------------------------------------------------------
(* Python values                                                            *)

\* None, as the value of a dict entry (status_code of a short response)
PyNone == -1

\* dict.get(key, default)
Get(d, k, default) == IF k \in DOMAIN d THEN d[k] ELSE default

\* dict.update(new)
Update(d, new) == new @@ d

\* bool(x) for the values a command function returns: None, False, True
Truthy(x) == x = "True"

-----------------------------------------------------------------------------
(* sensor_command.py: protocol constants                                    *)

GSP_CMD_HELLO == 0
GSP_CMD_SUBSCRIBE == 1
GSP_CMD_UNSUBSCRIBE == 2
GSP_CMD_FETCH_LOG == 3
GSP_CMD_GET == 4
GSP_CMD_CLEAR_LOGBOOK == 5
GSP_CMD_PUT_DATALOGGER_CONFIG == 6
GSP_CMD_PUT_SYSTEMMODE == 7
GSP_CMD_PUT_UTCTIME == 8
GSP_CMD_PUT_DATALOGGER_STATE == 9

GSP_RESP_COMMAND_RESPONSE == 1
GSP_RESP_DATA == 2
GSP_RESP_DATA_PART2 == 3

\* references the SensorCommand methods put in their commands
REF_HELLO == 100
REF_FETCH == 101
REF_DLSTATE == 101
REF_CONFIG == 102
REF_START == 103
REF_STOP == 104
REF_ERASE == 106
REF_SYSMODE == 107
REF_UTCTIME == 108

\* the system mode datalogger_tool.fetch_data resets the sensor to
SYSTEM_MODE_RESET == 5

HTTP_OK == 200
HTTP_NOT_FOUND == 404

-----------------------------------------------------------------------------
(* DataView and byte strings                                                *)

RECURSIVE LE(_, _)
\* int.to_bytes(n, byteorder='little')
LE(v, n) == IF n = 0 THEN <<>> ELSE <<v % 256>> \o LE(v \div 256, n - 1)

\* DataView.get_uint_8
get_uint_8(a, i) == a[i + 1]

\* DataView.get_uint_16
get_uint_16(a, i) == a[i + 1] + 256 * a[i + 2]

\* DataView.get_uint_32
get_uint_32(a, i) ==
    a[i + 1] + 256 * a[i + 2] + 65536 * a[i + 3] + 16777216 * a[i + 4]

\* data[n:]
From(a, n) == IF Len(a) > n THEN SubSeq(a, n + 1, Len(a)) ELSE <<>>

RECURSIVE Split(_, _)
\* bytes.split(sep) on a single separator byte: a list of byte strings
Split(a, sep) ==
    IF \A i \in 1..Len(a) : a[i] # sep
    THEN <<a>>
    ELSE LET k == CHOOSE i \in 1..Len(a) :
                      a[i] = sep /\ \A j \in 1..(i - 1) : a[j] # sep
         IN  <<SubSeq(a, 1, k - 1)>> \o Split(From(a, k), sep)

\* the bytes are appended wherever the frame says they belong
WriteAppend(f, offset, bytes) == f \o bytes

\* f.seek(offset); f.write(bytes) on a file of content f (a gap reads as zeros)
WriteAt(f, offset, bytes) ==
    LET n == IF Len(f) > offset + Len(bytes) THEN Len(f) ELSE offset + Len(bytes)
    IN  [i \in 1..n |->
            IF i > offset /\ i <= offset + Len(bytes) THEN bytes[i - offset]
            ELSE IF i <= Len(f) THEN f[i]
            ELSE 0]

-----------------------------------------------------------------------------
(* sensor_command.py: commands and the notification handler                 *)

\* bytearray([opcode, reference]) + payload
Command(opcode, reference, payload) == <<opcode, reference>> \o payload

\* "/Mem/DataLogger/State".encode(), abbreviated to its first and last bytes
PATH_DLSTATE == <<47, 101>>

\* "/Time/Detailed".encode(), abbreviated to its first and last bytes
PATH_TIME_DETAILED == <<47, 100>>

\* the clock value set_utc_time is given at connect (microseconds, 8 bytes)
UtcNow == 1

HelloCommand == Command(GSP_CMD_HELLO, REF_HELLO, <<>>)
DlStateCommand == Command(GSP_CMD_GET, REF_DLSTATE, PATH_DLSTATE)
ConfigCommand(payload) ==
    Command(GSP_CMD_PUT_DATALOGGER_CONFIG, REF_CONFIG, payload)
StartCommand == Command(GSP_CMD_PUT_DATALOGGER_STATE, REF_START, <<3>>)
StopCommand == Command(GSP_CMD_PUT_DATALOGGER_STATE, REF_STOP, <<2>>)
FetchCommand(id) == Command(GSP_CMD_FETCH_LOG, REF_FETCH, LE(id, 4))
SysModeCommand(mode) == Command(GSP_CMD_PUT_SYSTEMMODE, REF_SYSMODE, <<mode>>)
UtcTimeCommand(t) == Command(GSP_CMD_PUT_UTCTIME, REF_UTCTIME, LE(t, 8))
EraseCommand == Command(GSP_CMD_CLEAR_LOGBOOK, REF_ERASE, <<>>)

\* the entries _notification_handler adds for a command response
ParseCommandResponse(data, href) ==
    IF Len(data) >= 4
    THEN IF get_uint_8(data, 1) \in href
         THEN [status_code |-> HTTP_OK, command_data |-> From(data, 2)]
         ELSE [status_code |-> get_uint_16(data, 2),
               command_data |-> From(data, 4)]
    ELSE [status_code |-> PyNone, command_data |-> <<>>]

\* the dict _notification_handler queues for a notification of >= 2 bytes
ParseNotification(data, href) ==
    LET base == [response_code |-> get_uint_8(data, 0),
                 reference |-> get_uint_8(data, 1),
                 raw_data |-> data]
    IN  IF base.response_code = GSP_RESP_COMMAND_RESPONSE
        THEN Update(base, ParseCommandResponse(data, href))
        ELSE IF base.response_code \in {GSP_RESP_DATA, GSP_RESP_DATA_PART2}
        THEN Update(base, [data_payload |-> From(data, 2)])
        ELSE base

\* _notification_handler: the queue after the notification data is handled
NotificationHandler(queue, data, href) ==
    IF Len(data) < 2
    THEN queue     \* get_uint_8 raises IndexError: logged, nothing queued
    ELSE Append(queue, ParseNotification(data, href))

-----------------------------------------------------------------------------
(* The device: what it sends in answer to a command                         *)

\* response notification: response_code 1, reference, status (LE), data
RespFrame(reference, status, data) ==
    <<GSP_RESP_COMMAND_RESPONSE, reference>> \o LE(status, 2) \o data

\* data notification: response_code 2 or 3, reference, offset (LE), bytes
DataFrame(code, reference, offset, bytes) ==
    <<code, reference>> \o LE(offset, 4) \o bytes

\* HELLO bodies: protocol version and five NUL-terminated strings, or the
\* version byte alone
HelloBodies == { <<1, 83, 0, 80, 0, 77, 0, 65, 0, 86, 0>>, <<1>> }

\* status words a device answers with
Statuses == {200, 401, 404}

\* the frames a device may answer the command cmd with (HELLO carries no
\* status word; a 200 to GET carries the DataLogger state byte, and GET may
\* also be answered by a truncated response or by a data notification)
Answers(cmd) ==
    IF cmd[1] = GSP_CMD_HELLO
    THEN { <<GSP_RESP_COMMAND_RESPONSE, cmd[2]>> \o b : b \in HelloBodies }
    ELSE IF cmd[1] = GSP_CMD_GET
    THEN { RespFrame(cmd[2], 200, <<2>>), RespFrame(cmd[2], 404, <<>>),
           <<GSP_RESP_COMMAND_RESPONSE, cmd[2], 200>>,
           <<GSP_RESP_DATA, cmd[2], 2>> }
    ELSE IF cmd[1] = GSP_CMD_FETCH_LOG
    THEN { RespFrame(cmd[2], st, <<>>) :
             st \in IF get_uint_32(cmd, 2) <= MaxLogs THEN Statuses
                    ELSE Statuses \ {200} }
    ELSE { RespFrame(cmd[2], st, <<>>) : st \in Statuses }

\* the data frames a streaming device may emit: two bytes at offset 0, a
\* part-2 frame rewriting offset 1, the end-of-log frame (no bytes) at
\* offset 2, and a frame too short for an offset
StreamFrames ==
    { DataFrame(GSP_RESP_DATA, REF_FETCH, 0, <<65, 66>>),
      DataFrame(GSP_RESP_DATA_PART2, REF_FETCH, 1, <<67>>),
      DataFrame(GSP_RESP_DATA, REF_FETCH, 2, <<>>),
      <<GSP_RESP_DATA, REF_FETCH, 0>> }

-----------------------------------------------------------------------------
(* sensor_command.py: results of the SensorCommand methods                  *)

EmptyDict == [k \in {} |-> 0]

\* the result configure_device, stop_logging, erase_memory, set_system_mode
\* and set_utc_time build from the response of their command
CommandResult(r) ==
    IF r.response_code = GSP_RESP_COMMAND_RESPONSE
    THEN [success |-> Get(r, "status_code", 0) = HTTP_OK,
          status_code |-> Get(r, "status_code", 0),
          raw_data |-> r.raw_data]
    ELSE [success |-> FALSE, error |-> "Unexpected response code"]

\* get_status, first half: the entries parsed from the HELLO response
HelloStatus(r) ==
    IF /\ r.response_code = GSP_RESP_COMMAND_RESPONSE
       /\ Get(r, "status_code", 0) = HTTP_OK
       /\ Len(Get(r, "command_data", <<>>)) >= 5
    THEN LET command_data == r.command_data
             strings == Split(From(command_data, 1), 0)
             at(i) == IF Len(strings) > i THEN strings[i + 1] ELSE <<>>
         IN  [success |-> TRUE,
              protocol_version |-> get_uint_8(command_data, 0),
              serial_number |-> at(0),
              product_name |-> at(1),
              dfu_mac |-> at(2),
              app_name |-> at(3),
              app_version |-> at(4)]
    ELSE EmptyDict

\* the failure of GET /Mem/DataLogger/State is ignored
DlStateStatusIgnoresFailure(rv, r) ==
    IF /\ r.response_code = GSP_RESP_COMMAND_RESPONSE
       /\ Get(r, "status_code", 0) = HTTP_OK
       /\ Len(Get(r, "command_data", <<>>)) >= 1
    THEN Update(rv, [dlstate |-> get_uint_8(r.command_data, 0)])
    ELSE rv

\* get_status, second half: retval after the GET /Mem/DataLogger/State response
DlStateStatus(rv, r) ==
    IF r.response_code = GSP_RESP_COMMAND_RESPONSE
    THEN IF Get(r, "status_code", 0) = HTTP_OK
         THEN IF Len(Get(r, "command_data", <<>>)) >= 1
              THEN Update(rv, [dlstate |-> get_uint_8(r.command_data, 0)])
              ELSE rv
         ELSE Update(rv, [success |-> FALSE,
                          error |-> "GET DLSTATE command failed",
                          status_code |-> Get(r, "status_code", 0)])
    ELSE Update(rv, [success |-> FALSE, error |-> "Unexpected response code"])

\* the status of the initial response is not looked at
FetchInitResultNoStatus(r) ==
    IF r.response_code # GSP_RESP_COMMAND_RESPONSE
    THEN [success |-> FALSE, error |-> "Unexpected response to FETCH_LOG command"]
    ELSE EmptyDict

\* SensorCommand.fetch_data: the early return on the initial response, or
\* EmptyDict when the stream is to be read
FetchInitResult(r) ==
    IF r.response_code # GSP_RESP_COMMAND_RESPONSE
    THEN [success |-> FALSE, error |-> "Unexpected response to FETCH_LOG command"]
    ELSE IF Get(r, "status_code", 0) # HTTP_OK
    THEN [success |-> FALSE,
          status_code |-> Get(r, "status_code", 0),
          error |-> "FETCH_LOG command failed"]
    ELSE EmptyDict

\* SensorCommand.fetch_data: the result after the streaming loop
FetchDoneResult(id, size) ==
    [success |-> TRUE, filename |-> id, size |-> size, log_id |-> id]

\* the result an except clause builds from an exception
ErrorResult(e) == [success |-> FALSE, error |-> e]

\* datalogger_tool.fetch_data: a failed fetch_log is an error (the loop logs
\* it) rather than the end of the logs
FetchIsError(res) ==
    "status_code" \in DOMAIN res /\ res.status_code # HTTP_NOT_FOUND

\* configure_device: paths = args.path; paths.append("/Time/Detailed")
ConfigPaths(paths) == Append(paths, PATH_TIME_DETAILED)

\* configure_device: config_data built from the path list
RECURSIVE ConfigData(_)
ConfigData(paths) ==
    IF paths = <<>> THEN <<>>
    ELSE Head(paths) \o <<0>> \o ConfigData(Tail(paths))

-----------------------------------------------------------------------------
(* The session task: one tool-level operation on one serial                 *)

Ops == {"status", "config", "start", "stop", "fetch", "erase"}

\* every operation syncs the time
SetTimeAlways(o) == TRUE

\* the set_time argument each tool-level operation constructs SensorCommand with
SetTimeOf(o) == o \notin {"fetch", "erase"}

\* the path lists a caller passes to config (abbreviated paths)
PathLists == { <<<<47, 86>>>>, <<<<47, 86>>, <<47, 65>>>> }

\* the task is suspended in an await: callbacks of the event loop can run
Suspended ==
    spc \in {"scan", "connect", "start_notify", "writing", "waiting", "stream",
             "sleep", "stop_notify", "disconnecting"}

\* the task is suspended where a queued frame can still be read by it
Listening == spc \in {"writing", "waiting", "stream", "sleep"}

\* the output directory before the session: no log file exists
NoFiles == [i \in 1..(MaxLogs + 1) |-> [exists |-> FALSE, data |-> <<>>]]

\* no discovery is traced and no caller drives the methods
apiIdle ==
    /\ end_of_serial = <<>> /\ device_found = FALSE
    /\ target_device = PyNone /\ device_address = PyNone
    /\ adverts = <<>> /\ call = EmptyDict /\ ncalls = 0

sessIdle ==
    /\ spc = "idle" /\ op = "none" /\ cur = "" /\ set_time = FALSE
    /\ is_connected = FALSE /\ hello_ref = {} /\ response_queue = <<>>
    /\ response = EmptyDict /\ lastcmd = <<>> /\ retval = EmptyDict
    /\ log_id = 0 /\ last_offset = 0 /\ fetched_files = <<>>
    /\ result = EmptyDict /\ sresult = EmptyDict /\ excn = ""
    /\ files = NoFiles
    /\ link = "none" /\ notifying = FALSE /\ scanning = FALSE
    /\ owed = <<>> /\ streaming = FALSE /\ nframes = 0
    /\ written = <<>> /\ ioerr = FALSE
    /\ loop_end = EmptyDict
    /\ streamlog = <<>>
    /\ settled = <<>>

\* SensorCommand.__init__ in the tool-level operation o
SessInit ==
    /\ spc = "init" /\ op \in Ops /\ cur = "" /\ set_time = SetTimeOf(op)
    /\ is_connected = FALSE /\ hello_ref = {} /\ response_queue = <<>>
    /\ response = EmptyDict /\ lastcmd = <<>> /\ retval = EmptyDict
    /\ log_id = 0 /\ last_offset = 0 /\ fetched_files = <<>>
    /\ result = EmptyDict /\ sresult = EmptyDict /\ excn = ""
    /\ files = NoFiles
    /\ args_path \in (IF op = "config" THEN PathLists ELSE {<<>>})
    /\ link = "none" /\ notifying = FALSE /\ scanning = FALSE
    /\ owed = <<>> /\ streaming = FALSE /\ nframes = 0
    /\ written = <<>> /\ ioerr = FALSE
    /\ loop_end = EmptyDict
    /\ streamlog = <<>>
    /\ settled = <<>>

\* the end of a wait leaves no trace
SettleNothing(s, cmd, how, code) == s

\* send_command: the wait of the command cmd is over; it returned a frame
\* with the response code `code`, raised TimeoutError or raised the error of
\* write_gatt_char
Settle(s, cmd, how, code) ==
    Append(s, [reference |-> cmd[2], how |-> how, code |-> code])

\* send_command without the clearing of the queue
BeginSendKeepsQueue(cmd, who) ==
    /\ lastcmd' = cmd
    /\ cur' = who
    /\ IF ~is_connected
       THEN /\ excn' = "Not connected to device"
            /\ spc' = "raised"
            /\ UNCHANGED <<response_queue, written, settled, owed>>
       ELSE /\ response_queue' = response_queue
            /\ written' = Append(written, cmd)
            /\ UNCHANGED settled
            /\ \E a \in Answers(cmd) : owed' = <<[cmd |-> cmd, answer |-> a]>>
            /\ spc' = "writing"
            /\ excn' = excn

\* send_command up to its first suspension: the connection check, the
\* clearing of the queue and the call of write_gatt_char (the device then
\* has the command and settles its answer)
BeginSend(cmd, who) ==
    /\ lastcmd' = cmd
    /\ cur' = who
    /\ IF ~is_connected
       THEN /\ excn' = "Not connected to device"
            /\ spc' = "raised"
            /\ UNCHANGED <<response_queue, written, settled, owed>>
       ELSE /\ response_queue' = <<>>
            /\ written' = Append(written, cmd)
            /\ UNCHANGED settled
            /\ \E a \in Answers(cmd) : owed' = <<[cmd |-> cmd, answer |-> a]>>
            /\ spc' = "writing"
            /\ excn' = excn

\* _discover_and_connect: the scanner is started
ScanStart ==
    /\ UNCHANGED <<fleetVars, apiVars>>
    /\ spc = "init"
    /\ spc' = "scan"
    /\ scanning' = TRUE
    /\ UNCHANGED <<op, cur, set_time, is_connected, hello_ref, response_queue,
                   response, lastcmd, retval, log_id, last_offset,
                   fetched_files, result, sresult, excn, files, args_path,
                   link, notifying, owed, streaming, nframes, written, settled, ioerr, loop_end, streamlog>>

\* the scanner is left running when the wait ends
ScannerLeftRunning == TRUE

\* _discover_and_connect: whether the scanner runs once the wait for the
\* advertisement is over (finally: await scanner.stop())
ScannerAfterWait == FALSE

\* _discover_and_connect: a matching advertisement arrived; the scanner is
\* stopped and client.connect() is called
DeviceFound ==
    /\ UNCHANGED <<fleetVars, apiVars>>
    /\ spc = "scan"
    /\ spc' = "connect"
    /\ scanning' = ScannerAfterWait
    /\ UNCHANGED <<op, cur, set_time, is_connected, hello_ref, response_queue,
                   response, lastcmd, retval, log_id, last_offset,
                   fetched_files, result, sresult, excn, files, args_path,
                   link, notifying, owed, streaming, nframes, written, settled, ioerr, loop_end, streamlog>>

\* the exception of __aenter__ is swallowed and the body is entered
EnterFailedRunsBody(e) ==
    /\ excn' = e
    /\ result' = result
    /\ spc' = "body"

\* an exception leaves __aenter__: the tool-level except clause returns
EnterFailed(e) ==
    /\ excn' = e
    /\ result' = ErrorResult(e)
    /\ spc' = "returned"

\* _discover_and_connect: no matching advertisement within 10 s
ScanTimeout ==
    /\ UNCHANGED <<fleetVars, apiVars>>
    /\ spc = "scan"
    /\ scanning' = ScannerAfterWait
    /\ EnterFailed("not found")
    /\ UNCHANGED <<op, cur, set_time, is_connected, hello_ref, response_queue,
                   response, lastcmd, retval, log_id, last_offset,
                   fetched_files, sresult, files, args_path,
                   link, notifying, owed, streaming, nframes, written, settled, ioerr, loop_end, streamlog>>

\* _discover_and_connect: client.connect() returned
ConnectOk ==
    /\ UNCHANGED <<fleetVars, apiVars>>
    /\ spc = "connect"
    /\ is_connected' = TRUE
    /\ link' = "up"
    /\ spc' = "start_notify"
    /\ UNCHANGED <<op, cur, set_time, hello_ref, response_queue,
                   response, lastcmd, retval, log_id, last_offset,
                   fetched_files, result, sresult, excn, files, args_path,
                   notifying, scanning, owed, streaming, nframes, written, settled, ioerr, loop_end, streamlog>>

\* _discover_and_connect: client.connect() raised
ConnectFail ==
    /\ UNCHANGED <<fleetVars, apiVars>>
    /\ spc = "connect"
    /\ EnterFailed("Failed to connect")
    /\ UNCHANGED <<op, cur, set_time, is_connected, hello_ref, response_queue,
                   response, lastcmd, retval, log_id, last_offset,
                   fetched_files, sresult, files, args_path,
                   link, notifying, scanning, owed, streaming, nframes,
                   written, settled, ioerr, loop_end, streamlog>>

\* _discover_and_connect: start_notify returned; with set_time the time sync
\* command is sent, otherwise __aenter__ returns
StartNotifyOk ==
    /\ UNCHANGED <<fleetVars, apiVars>>
    /\ spc = "start_notify"
    /\ link = "up"
    /\ notifying' = TRUE
    /\ IF set_time
       THEN BeginSend(UtcTimeCommand(UtcNow), "set_utc_time")
       ELSE /\ spc' = "body"
            /\ UNCHANGED <<lastcmd, cur, excn, response_queue, written, settled, owed>>
    /\ UNCHANGED <<op, set_time, is_connected, hello_ref,
                   response, retval, log_id, last_offset,
                   fetched_files, result, sresult, files, args_path,
                   link, scanning, streaming, nframes, ioerr, loop_end, streamlog>>

\* _discover_and_connect: start_notify raised
StartNotifyFail ==
    /\ UNCHANGED <<fleetVars, apiVars>>
    /\ spc = "start_notify"
    /\ EnterFailed("Failed to connect")
    /\ UNCHANGED <<op, cur, set_time, is_connected, hello_ref, response_queue,
                   response, lastcmd, retval, log_id, last_offset,
                   fetched_files, sresult, files, args_path,
                   link, notifying, scanning, owed, streaming, nframes,
                   written, settled, ioerr, loop_end, streamlog>>

\* send_command: write_gatt_char returned; the task waits on the queue
WriteDone ==
    /\ UNCHANGED <<fleetVars, apiVars>>
    /\ spc = "writing"
    /\ link = "up"
    /\ spc' = "waiting"
    /\ UNCHANGED <<op, cur, set_time, is_connected, hello_ref, response_queue,
                   response, lastcmd, retval, log_id, last_offset,
                   fetched_files, result, sresult, excn, files, args_path,
                   link, notifying, scanning, owed, streaming, nframes,
                   written, settled, ioerr, loop_end, streamlog>>

\* send_command: write_gatt_char raised
WriteFail ==
    /\ UNCHANGED <<fleetVars, apiVars>>
    /\ spc = "writing"
    /\ spc' = "raised"
    /\ excn' = "write failed"
    /\ settled' = Settle(settled, lastcmd, "error", PyNone)
    /\ UNCHANGED <<op, cur, set_time, is_connected, hello_ref, response_queue,
                   response, lastcmd, retval, log_id, last_offset,
                   fetched_files, result, sresult, files, args_path,
                   link, notifying, scanning, owed, streaming, nframes,
                   written, ioerr, loop_end, streamlog>>

\* send_command: response_queue.get() returned a frame
ReceiveResponse ==
    /\ UNCHANGED <<fleetVars, apiVars>>
    /\ spc = "waiting"
    /\ response_queue # <<>>
    /\ response' = Head(response_queue)
    /\ response_queue' = Tail(response_queue)
    /\ spc' = "got"
    /\ settled' = Settle(settled, lastcmd, "response", Head(response_queue).response_code)
    /\ UNCHANGED <<op, cur, set_time, is_connected, hello_ref,
                   lastcmd, retval, log_id, last_offset,
                   fetched_files, result, sresult, excn, files, args_path,
                   link, notifying, scanning, owed, streaming, nframes,
                   written, ioerr, loop_end, streamlog>>

\* send_command: no frame within the timeout
CommandTimeout ==
    /\ UNCHANGED <<fleetVars, apiVars>>
    /\ spc = "waiting"
    /\ response_queue = <<>>
    /\ spc' = "raised"
    /\ excn' = "Command timeout"
    /\ settled' = Settle(settled, lastcmd, "timeout", PyNone)
    /\ UNCHANGED <<op, cur, set_time, is_connected, hello_ref, response_queue,
                   response, lastcmd, retval, log_id, last_offset,
                   fetched_files, result, sresult, files, args_path,
                   link, notifying, scanning, owed, streaming, nframes,
                   written, ioerr, loop_end, streamlog>>

\* an exception raised by send_command reaches its handler: the except of
\* _discover_and_connect (the session is not entered), the except of
\* SensorCommand.fetch_data (an error result), or it leaves the body of the
\* async with (Close runs, then the tool-level except clause)
ExceptionRaised ==
    /\ UNCHANGED <<fleetVars, apiVars>>
    /\ spc = "raised"
    /\ IF cur = "set_utc_time"
       THEN /\ EnterFailed("Failed to connect")
            /\ UNCHANGED sresult
       ELSE IF cur = "fetch"
       THEN /\ sresult' = ErrorResult(excn)
            /\ excn' = ""
            /\ spc' = "fetch_ret"
            /\ UNCHANGED result
       ELSE /\ spc' = "close"
            /\ UNCHANGED <<excn, result, sresult>>
    /\ UNCHANGED <<op, cur, set_time, is_connected, hello_ref, response_queue,
                   response, lastcmd, retval, log_id, last_offset,
                   fetched_files, files, args_path,
                   link, notifying, scanning, owed, streaming, nframes,
                   written, settled, ioerr, loop_end, streamlog>>

\* the same log is requested again
NextLogIdSame(id) == id

\* datalogger_tool.fetch_data: log_id += 1
NextLogId(id) == id + 1

\* datalogger_tool.fetch_data: log_id = 1, the first log requested
FIRST_LOG_ID == 1

\* the body of the async with: the tool-level operation calls its
\* SensorCommand method, which sends its first command
Body ==
    /\ UNCHANGED <<fleetVars, apiVars>>
    /\ spc = "body"
    /\ \/ /\ op = "status"
          /\ hello_ref' = {REF_HELLO}
          /\ retval' = EmptyDict
          /\ BeginSend(HelloCommand, "hello")
          /\ UNCHANGED <<args_path, log_id, fetched_files>>
       \/ /\ op = "config"
          /\ args_path' = ConfigPaths(args_path)
          /\ BeginSend(ConfigCommand(ConfigData(args_path')), "configure")
          /\ UNCHANGED <<hello_ref, retval, log_id, fetched_files>>
       \/ /\ op = "start"
          /\ BeginSend(StartCommand, "start")
          /\ UNCHANGED <<hello_ref, retval, args_path, log_id, fetched_files>>
       \/ /\ op = "stop"
          /\ BeginSend(StopCommand, "stop")
          /\ UNCHANGED <<hello_ref, retval, args_path, log_id, fetched_files>>
       \/ /\ op = "erase"
          /\ BeginSend(EraseCommand, "erase")
          /\ UNCHANGED <<hello_ref, retval, args_path, log_id, fetched_files>>
       \/ /\ op = "fetch"
          /\ log_id' = FIRST_LOG_ID
          /\ fetched_files' = <<>>
          /\ BeginSend(FetchCommand(FIRST_LOG_ID), "fetch")
          /\ UNCHANGED <<hello_ref, retval, args_path>>
    /\ UNCHANGED <<op, set_time, is_connected, response, last_offset,
                   result, sresult, files, link, notifying, scanning,
                   streaming, nframes, ioerr, loop_end, streamlog>>

\* the code that runs when send_command returns its frame, up to the next
\* suspension of the task
CommandReturned ==
    /\ UNCHANGED <<fleetVars, apiVars>>
    /\ spc = "got"
    /\ \/ /\ cur = "set_utc_time"
          /\ spc' = "body"
          /\ UNCHANGED <<cur, lastcmd, excn, response_queue, written, settled, owed,
                         retval, result, sresult, files, last_offset, ioerr>>
       \/ /\ cur = "hello"
          /\ retval' = Update(retval, HelloStatus(response))
          /\ BeginSend(DlStateCommand, "dlstate")
          /\ UNCHANGED <<result, sresult, files, last_offset, ioerr>>
       \/ /\ cur = "dlstate"
          /\ retval' = DlStateStatus(retval, response)
          /\ result' = retval'
          /\ spc' = "close"
          /\ UNCHANGED <<cur, lastcmd, excn, response_queue, written, settled, owed,
                         sresult, files, last_offset, ioerr>>
       \/ /\ cur \in {"configure", "start", "stop", "erase"}
          /\ result' = CommandResult(response)
          /\ spc' = "close"
          /\ UNCHANGED <<cur, lastcmd, excn, response_queue, written, settled, owed,
                         retval, sresult, files, last_offset, ioerr>>
       \/ /\ cur = "sysmode"
          /\ result' = [success |-> TRUE, files_fetched |-> fetched_files]
          /\ spc' = "close"
          /\ UNCHANGED <<cur, lastcmd, excn, response_queue, written, settled, owed,
                         retval, sresult, files, last_offset, ioerr>>
       \/ /\ cur = "fetch"
          /\ IF FetchInitResult(response) # EmptyDict
             THEN /\ sresult' = FetchInitResult(response)
                  /\ spc' = "fetch_ret"
                  /\ UNCHANGED <<files, last_offset, ioerr>>
             ELSE \* open(filename, 'wb'); last_offset = 0
                  /\ files' = [files EXCEPT ![log_id] =
                                   [exists |-> TRUE, data |-> <<>>]]
                  /\ last_offset' = 0
                  /\ ioerr' = FALSE
                  /\ spc' = "stream"
                  /\ UNCHANGED sresult
          /\ UNCHANGED <<cur, lastcmd, excn, response_queue, written, settled, owed,
                         retval, result>>
    /\ UNCHANGED <<loop_end, streamlog, op, set_time, is_connected, hello_ref,
                   response, log_id,
                   fetched_files, args_path, link, notifying, scanning,
                   streaming, nframes>>

\* every frame is written, the empty one too: the loop never sees the end
HasBytesAlways(bytes_to_write) == TRUE

\* SensorCommand.fetch_data: the frame carries bytes to write (an empty frame
\* is the end of the log)
HasBytes(bytes_to_write) == Len(bytes_to_write) > 0

\* SensorCommand.fetch_data, streaming loop: one frame taken from the queue
StreamFrame ==
    /\ UNCHANGED <<fleetVars, apiVars>>
    /\ spc = "stream"
    /\ response_queue # <<>>
    /\ LET data_response == Head(response_queue)
           data_payload == Get(data_response, "data_payload", <<>>)
       IN  /\ response_queue' = Tail(response_queue)
           /\ streamlog' = IF data_response.response_code
                                  \in {GSP_RESP_DATA, GSP_RESP_DATA_PART2}
                            THEN Append(streamlog, data_payload)
                            ELSE streamlog
           /\ IF data_response.response_code
                     \in {GSP_RESP_DATA, GSP_RESP_DATA_PART2}
              THEN IF Len(data_payload) >= 4
                      THEN LET offset == get_uint_32(data_payload, 0)
                               bytes_to_write == From(data_payload, 4)
                           IN  /\ last_offset' = offset
                               /\ IF HasBytes(bytes_to_write)
                                  THEN \/ /\ files' =
                                             [files EXCEPT ![log_id].data =
                                                WriteAt(@, offset, bytes_to_write)]
                                          /\ spc' = "stream"
                                          /\ UNCHANGED <<sresult, ioerr>>
                                       \/ \* f_log.write raises
                                          /\ ioerr' = TRUE
                                          /\ sresult' = ErrorResult("write error")
                                          /\ spc' = "fetch_ret"
                                          /\ UNCHANGED files
                                  ELSE /\ spc' = "sleep"
                                       /\ UNCHANGED <<files, sresult, ioerr>>
                      ELSE \* "Received data packet too short": break
                           /\ sresult' = FetchDoneResult(log_id, last_offset)
                           /\ spc' = "fetch_ret"
                           /\ UNCHANGED <<files, last_offset, ioerr>>
              ELSE /\ spc' = "stream"
                   /\ UNCHANGED <<files, last_offset, sresult, ioerr>>
    /\ UNCHANGED <<loop_end, op, cur, set_time, is_connected, hello_ref, response,
                   lastcmd, retval, log_id, fetched_files, result, excn,
                   args_path, link, notifying, scanning, owed, streaming,
                   nframes, written, settled>>

\* SensorCommand.fetch_data, streaming loop: no frame for 30 s
StreamTimeout ==
    /\ UNCHANGED <<fleetVars, apiVars>>
    /\ spc = "stream"
    /\ response_queue = <<>>
    /\ sresult' = FetchDoneResult(log_id, last_offset)
    /\ spc' = "fetch_ret"
    /\ UNCHANGED <<op, cur, set_time, is_connected, hello_ref, response_queue,
                   response, lastcmd, retval, log_id, last_offset,
                   fetched_files, result, excn, files, args_path,
                   link, notifying, scanning, owed, streaming, nframes,
                   written, settled, ioerr, loop_end, streamlog>>

\* SensorCommand.fetch_data: the 1 s sleep after the end-of-log frame is over
SleepDone ==
    /\ UNCHANGED <<fleetVars, apiVars>>
    /\ spc = "sleep"
    /\ sresult' = FetchDoneResult(log_id, last_offset)
    /\ spc' = "fetch_ret"
    /\ UNCHANGED <<op, cur, set_time, is_connected, hello_ref, response_queue,
                   response, lastcmd, retval, log_id, last_offset,
                   fetched_files, result, excn, files, args_path,
                   link, notifying, scanning, owed, streaming, nframes,
                   written, settled, ioerr, loop_end, streamlog>>

\* the reset sent with another system mode
AfterLoopCommandMode1 == SysModeCommand(1)

\* datalogger_tool.fetch_data: the command sent once the loop is left
AfterLoopCommand == SysModeCommand(SYSTEM_MODE_RESET)

\* datalogger_tool.fetch_data: the loop body after sensor.fetch_data returned;
\* either the next log is requested or the loop is left and the system mode
\* is reset
FetchReturned ==
    /\ UNCHANGED <<fleetVars, apiVars>>
    /\ spc = "fetch_ret"
    /\ IF ~Get(sresult, "success", FALSE)
       THEN /\ sresult' = IF FetchIsError(sresult) THEN sresult
                          ELSE [success |-> TRUE, message |-> log_id - 1]
            /\ loop_end' = sresult
            /\ BeginSend(AfterLoopCommand, "sysmode")
            /\ UNCHANGED <<fetched_files, log_id, streamlog>>
       ELSE /\ fetched_files' = Append(fetched_files, sresult.filename)
            /\ log_id' = NextLogId(log_id)
            /\ streamlog' = <<>>
            /\ BeginSend(FetchCommand(log_id'), "fetch")
            /\ UNCHANGED <<sresult, loop_end>>
    /\ UNCHANGED <<op, set_time, is_connected, hello_ref, response, retval,
                   last_offset, result, files, args_path, link, notifying,
                   scanning, streaming, nframes, ioerr>>

\* __aexit__ -> disconnect(): stop_notify is called when the session holds a
\* client it believes connected
Close ==
    /\ UNCHANGED <<fleetVars, apiVars>>
    /\ spc = "close"
    /\ spc' = IF is_connected THEN "stop_notify" ELSE "closed"
    /\ UNCHANGED <<op, cur, set_time, is_connected, hello_ref, response_queue,
                   response, lastcmd, retval, log_id, last_offset,
                   fetched_files, result, sresult, excn, files, args_path,
                   link, notifying, scanning, owed, streaming, nframes,
                   written, settled, ioerr, loop_end, streamlog>>

\* disconnect(): stop_notify returned; client.disconnect() is called
StopNotifyOk ==
    /\ UNCHANGED <<fleetVars, apiVars>>
    /\ spc = "stop_notify"
    /\ notifying' = FALSE
    /\ spc' = "disconnecting"
    /\ UNCHANGED <<op, cur, set_time, is_connected, hello_ref, response_queue,
                   response, lastcmd, retval, log_id, last_offset,
                   fetched_files, result, sresult, excn, files, args_path,
                   link, scanning, owed, streaming, nframes,
                   written, settled, ioerr, loop_end, streamlog>>

\* the exception of stop_notify leaves disconnect()
StopNotifyFailRaises ==
    /\ UNCHANGED <<fleetVars, apiVars>>
    /\ spc = "stop_notify"
    /\ spc' = "raised"
    /\ excn' = "stop_notify failed"
    /\ UNCHANGED <<op, cur, set_time, is_connected, hello_ref, response_queue,
                   response, lastcmd, retval, log_id, last_offset,
                   fetched_files, result, sresult, files, args_path,
                   link, notifying, scanning, owed, streaming, nframes,
                   written, settled, ioerr, loop_end, streamlog>>

\* disconnect(): stop_notify raised; the except clause logs it
StopNotifyFail ==
    /\ UNCHANGED <<fleetVars, apiVars>>
    /\ spc = "stop_notify"
    /\ spc' = "closed"
    /\ UNCHANGED <<op, cur, set_time, is_connected, hello_ref, response_queue,
                   response, lastcmd, retval, log_id, last_offset,
                   fetched_files, result, sresult, excn, files, args_path,
                   link, notifying, scanning, owed, streaming, nframes,
                   written, settled, ioerr, loop_end, streamlog>>

\* disconnect(): client.disconnect() returned
DisconnectOk ==
    /\ UNCHANGED <<fleetVars, apiVars>>
    /\ spc = "disconnecting"
    /\ link' = IF link = "up" THEN "closed" ELSE link
    /\ is_connected' = FALSE
    /\ spc' = "closed"
    /\ UNCHANGED <<op, cur, set_time, hello_ref, response_queue,
                   response, lastcmd, retval, log_id, last_offset,
                   fetched_files, result, sresult, excn, files, args_path,
                   notifying, scanning, owed, streaming, nframes,
                   written, settled, ioerr, loop_end, streamlog>>

\* disconnect(): client.disconnect() raised; the except clause logs it
DisconnectFail ==
    /\ UNCHANGED <<fleetVars, apiVars>>
    /\ spc = "disconnecting"
    /\ spc' = "closed"
    /\ UNCHANGED <<op, cur, set_time, is_connected, hello_ref, response_queue,
                   response, lastcmd, retval, log_id, last_offset,
                   fetched_files, result, sresult, excn, files, args_path,
                   link, notifying, scanning, owed, streaming, nframes,
                   written, settled, ioerr, loop_end, streamlog>>

\* the tool-level operation returns: the value of the body, or the error
\* result of its except clause when the body raised
OpReturn ==
    /\ UNCHANGED <<fleetVars, apiVars>>
    /\ spc = "closed"
    /\ result' = IF excn # "" THEN ErrorResult(excn) ELSE result
    /\ spc' = "returned"
    /\ UNCHANGED <<op, cur, set_time, is_connected, hello_ref, response_queue,
                   response, lastcmd, retval, log_id, last_offset,
                   fetched_files, sresult, excn, files, args_path,
                   link, notifying, scanning, owed, streaming, nframes,
                   written, settled, ioerr, loop_end, streamlog>>

-----------------------------------------------------------------------------
(* The transport's callbacks and the device                                 *)

\* the device answers the command it holds; the notification reaches
\* _notification_handler
DeviceAnswer ==
    /\ UNCHANGED <<fleetVars, apiVars>>
    /\ Listening /\ link = "up" /\ notifying
    /\ owed # <<>>
    /\ response_queue' =
           NotificationHandler(response_queue, owed[1].answer, hello_ref)
    /\ owed' = <<>>
    /\ streaming' = (streaming \/ (/\ owed[1].cmd[1] = GSP_CMD_FETCH_LOG
                                   /\ owed[1].answer = RespFrame(REF_FETCH, 200, <<>>)))
    /\ UNCHANGED <<spc, op, cur, set_time, is_connected, hello_ref,
                   response, lastcmd, retval, log_id, last_offset,
                   fetched_files, result, sresult, excn, files, args_path,
                   link, notifying, scanning, nframes,
                   written, settled, ioerr, loop_end, streamlog>>

\* the device has a log to send: it answered FETCH_LOG with 200, or is about to
DeviceStreams ==
    \/ streaming
    \/ /\ owed # <<>>
       /\ owed[1].cmd[1] = GSP_CMD_FETCH_LOG
       /\ owed[1].answer = RespFrame(REF_FETCH, 200, <<>>)

\* the device emits a data frame of the log; the notification reaches
\* _notification_handler
DeviceData ==
    /\ UNCHANGED <<fleetVars, apiVars>>
    /\ Listening /\ link = "up" /\ notifying
    /\ DeviceStreams
    /\ nframes < MaxFrames
    /\ \E f \in StreamFrames :
           response_queue' = NotificationHandler(response_queue, f, hello_ref)
    /\ nframes' = nframes + 1
    /\ UNCHANGED <<spc, op, cur, set_time, is_connected, hello_ref,
                   response, lastcmd, retval, log_id, last_offset,
                   fetched_files, result, sresult, excn, files, args_path,
                   link, notifying, scanning, owed, streaming,
                   written, settled, ioerr, loop_end, streamlog>>

\* _disconnect_callback: the link dropped
DisconnectCallback ==
    /\ UNCHANGED <<fleetVars, apiVars>>
    /\ Suspended /\ link = "up"
    /\ link' = "lost"
    /\ is_connected' = FALSE
    /\ notifying' = FALSE
    /\ owed' = <<>>
    /\ UNCHANGED <<spc, op, cur, set_time, hello_ref, response_queue,
                   response, lastcmd, retval, log_id, last_offset,
                   fetched_files, result, sresult, excn, files, args_path,
                   scanning, streaming, nframes, written, settled, ioerr, loop_end, streamlog>>

SessNext ==
    \/ ScanStart \/ DeviceFound \/ ScanTimeout
    \/ ConnectOk \/ ConnectFail \/ StartNotifyOk \/ StartNotifyFail
    \/ WriteDone \/ WriteFail \/ ReceiveResponse \/ CommandTimeout
    \/ ExceptionRaised \/ Body \/ CommandReturned
    \/ StreamFrame \/ StreamTimeout \/ SleepDone \/ FetchReturned
    \/ Close \/ StopNotifyOk \/ StopNotifyFail \/ DisconnectOk
    \/ DisconnectFail \/ OpReturn
    \/ DeviceAnswer \/ DeviceData \/ DisconnectCallback

-----------------------------------------------------------------------------
(* datalogger_tool.py: the command functions and the supervisor             *)

Commands == {"status", "config", "start", "stop", "fetch", "erasemem"}

Serials == {"000455", "000456"}

\* args.serial_numbers: the lists of distinct serials
SerialLists ==
    { <<a>> : a \in Serials } \cup
    { l \in { <<a, b>> : a \in Serials, b \in Serials } : l[1] # l[2] }

\* main: the retry count passed for the status command
STATUS_RETRYS == 0
\* main: the retry count passed for every other command
DEFAULT_RETRYS == 10

\* no answer has been typed yet
NoInput == <<"-">>

\* what the operator types at the erase confirmation prompt
Inputs == { <<"y">>, <<"Y", "E", "S">>, <<" ", "y", " ">>, <<"n">>, <<>>,
            <<"y", "e">> }

\* str.lower() on the characters used
LowerChar(c) ==
    IF c = "Y" THEN "y" ELSE IF c = "E" THEN "e" ELSE IF c = "S" THEN "s" ELSE c

Lower(str) == [i \in 1..Len(str) |-> LowerChar(str[i])]

RECURSIVE Strip(_)
\* str.strip()
Strip(str) ==
    IF str = <<>> THEN str
    ELSE IF Head(str) = " " THEN Strip(Tail(str))
    ELSE IF str[Len(str)] = " " THEN Strip(SubSeq(str, 1, Len(str) - 1))
    ELSE str

\* any answer confirms the erase
ConfirmedAny(input) == TRUE

\* erasemem_command: the answer confirms the erase
Confirmed(input) ==
    Lower(Lower(Strip(input))) \in { <<"y", "e", "s">>, <<"y">> }

\* the outcomes of a tool-level operation run by run_async_command: its
\* result dict has success True, has success False or none (for a protocol
\* error: 'Unexpected response code', a status_code that is not 200 or None),
\* or it raised
Outcomes == {"success", "failure", "protocol_error", "raise"}

\* <name>_command(serial, args): the value the command function returns when
\* its tool-level operation ends with outcome o
CommandFunc(cmd, o) ==
    IF cmd = "status"
    THEN "None"     \* status_command prints and has no return statement
    ELSE IF o = "success" THEN "True" ELSE "False"

\* the serial is collected when its command function returned a true value
CollectTruthy(ret) == Truthy(ret)

\* every serial is collected, whatever its command function returned
CollectAll(ret) == TRUE

\* all_sensors_command: the serial is collected for the next round
Collect(ret) == ~Truthy(ret)

fleetIdle ==
    /\ fpc = "idle" /\ command = "none" /\ force = FALSE /\ retrys = 0
    /\ retry_count = 0 /\ serials = <<>> /\ next_serials = <<>> /\ idx = 0
    /\ exit_code = {} /\ via_main = FALSE /\ origSerials = <<>>
    /\ calls = [s \in Serials |-> 0]
    /\ lastOutcome = [s \in Serials |-> "none"]
    /\ lastRet = [s \in Serials |-> "none"]
    /\ roundFailed = <<>> /\ rounds = 0 /\ sleeps = 0
    /\ prompted = [s \in Serials |-> 0] /\ opened = [s \in Serials |-> 0]
    /\ config_data = <<>> /\ origPath = <<>> /\ lastInput = NoInput
    /\ lastFailure = "none"

\* the process after argument parsing, or a caller about to call
\* all_sensors_command
FleetInit ==
    /\ fpc = "start" /\ command \in Commands
    /\ force \in (IF command = "erasemem" THEN BOOLEAN ELSE {FALSE})
    /\ retrys = 0 /\ retry_count = 0 /\ serials = <<>> /\ next_serials = <<>>
    /\ idx = 0 /\ exit_code = {} /\ via_main = FALSE
    /\ origSerials \in SerialLists
    /\ calls = [s \in Serials |-> 0]
    /\ lastOutcome = [s \in Serials |-> "none"]
    /\ lastRet = [s \in Serials |-> "none"]
    /\ roundFailed = <<>> /\ rounds = 0 /\ sleeps = 0
    /\ prompted = [s \in Serials |-> 0] /\ opened = [s \in Serials |-> 0]
    /\ args_path \in (IF command = "config" THEN PathLists ELSE {<<>>})
    /\ origPath = args_path
    /\ config_data = <<>> /\ lastInput = NoInput
    /\ lastFailure = "none"

\* all_sensors_command is entered with retry count r
Enter(r, main) ==
    /\ UNCHANGED <<sessVars, apiVars, config_data, origPath, lastFailure, lastInput, args_path>>
    /\ fpc = "start"
    /\ via_main' = main
    /\ retrys' = r
    /\ retry_count' = 0
    /\ serials' = origSerials
    /\ fpc' = "while"
    /\ UNCHANGED <<command, force, next_serials, idx, exit_code, origSerials,
                   calls, lastOutcome, lastRet, roundFailed, rounds, sleeps, prompted,
                   opened>>

\* main: the command is dispatched with its retry count
Main == Enter(IF command = "status" THEN STATUS_RETRYS ELSE DEFAULT_RETRYS, TRUE)

\* all_sensors_command called with another retry count
CallAllSensors == \E r \in 0..MaxRetrys : Enter(r, FALSE)

\* the while condition off by one: a round too many
WhileCondOneMore(count, r) == count <= r + 1

\* all_sensors_command: the while condition admits another round
WhileCond(count, r) == count <= r

\* all_sensors_command: the while statement
While ==
    /\ UNCHANGED <<sessVars, apiVars, config_data, origPath, lastFailure, lastInput, args_path>>
    /\ fpc = "while"
    /\ IF WhileCond(retry_count, retrys)
       THEN /\ next_serials' = <<>>
            /\ idx' = 1
            /\ rounds' = rounds + 1
            /\ roundFailed' = <<>>
            /\ fpc' = "for"
       ELSE /\ fpc' = "return"
            /\ UNCHANGED <<next_serials, idx, rounds, roundFailed>>
    /\ UNCHANGED <<command, force, retrys, retry_count, serials, exit_code,
                   via_main, origSerials, calls, lastOutcome, lastRet, sleeps,
                   prompted, opened>>

\* erasemem_command without --force: the prompt is shown and input() returns
\* what the operator typed
Prompt ==
    /\ UNCHANGED <<sessVars, apiVars, config_data, origPath, lastFailure, args_path>>
    /\ fpc = "for"
    /\ idx <= Len(serials)
    /\ command = "erasemem" /\ ~force
    /\ \E input \in Inputs : lastInput' = input
    /\ prompted' = [prompted EXCEPT ![serials[idx]] = @ + 1]
    /\ fpc' = "asked"
    /\ UNCHANGED <<command, force, retrys, retry_count, serials, next_serials,
                   idx, exit_code, via_main, origSerials, calls, lastOutcome,
                   lastRet, roundFailed, rounds, sleeps, opened>>

\* all_sensors_command: command_func(serial, args) for the next serial, for a
\* command function that runs its tool-level operation
RunCommand ==
    /\ UNCHANGED <<sessVars, apiVars, origPath, prompted>>
    /\ idx <= Len(serials)
    /\ IF command = "erasemem" /\ ~force
       THEN fpc = "asked" /\ Confirmed(lastInput)
       ELSE fpc = "for"
    /\ fpc' = "for"
    /\ lastInput' = NoInput
    /\ LET serial == serials[idx] IN
       /\ \E o \in Outcomes, entered \in BOOLEAN :
            \* a result with success True comes out of an entered session
            /\ o = "success" => entered
            /\ IF command = "config" /\ entered
               THEN /\ args_path' = ConfigPaths(args_path)
                    /\ config_data' = ConfigData(args_path')
               ELSE UNCHANGED <<args_path, config_data>>
            /\ lastOutcome' = [lastOutcome EXCEPT ![serial] =
                                   IF o = "success" THEN "success" ELSE "failed"]
            /\ lastRet' = [lastRet EXCEPT ![serial] = CommandFunc(command, o)]
            /\ next_serials' = IF Collect(CommandFunc(command, o))
                               THEN Append(next_serials, serial)
                               ELSE next_serials
            /\ roundFailed' = IF o # "success" THEN Append(roundFailed, serial)
                              ELSE roundFailed
            /\ lastFailure' = IF o = "success" THEN "none"
                              ELSE IF o = "protocol_error" THEN "protocol"
                              ELSE "other"
       /\ calls' = [calls EXCEPT ![serial] = @ + 1]
       /\ opened' = [opened EXCEPT ![serial] = @ + 1]
    /\ idx' = idx + 1
    /\ UNCHANGED <<command, force, retrys, retry_count, serials,
                   exit_code, via_main, origSerials, rounds, sleeps>>

\* all_sensors_command: erasemem_command without --force, the operator does
\* not confirm: True is returned and no session is opened
EraseDeclined ==
    /\ UNCHANGED <<sessVars, apiVars, config_data, origPath, args_path, prompted>>
    /\ fpc = "asked"
    /\ idx <= Len(serials)
    /\ command = "erasemem" /\ ~force
    /\ ~Confirmed(lastInput)
    /\ fpc' = "for"
    /\ lastInput' = NoInput
    /\ LET serial == serials[idx] IN
       /\ lastOutcome' = [lastOutcome EXCEPT ![serial] = "declined"]
       /\ lastFailure' = "none"
       /\ lastRet' = [lastRet EXCEPT ![serial] = "True"]
       /\ next_serials' = IF Collect("True") THEN Append(next_serials, serial)
                          ELSE next_serials
       /\ calls' = [calls EXCEPT ![serial] = @ + 1]
    /\ idx' = idx + 1
    /\ UNCHANGED <<command, force, retrys, retry_count, serials,
                   exit_code, via_main, origSerials, roundFailed, rounds,
                   sleeps, opened>>

\* all_sensors_command: command_func raised (input() of erasemem_command is
\* outside its try): the except clause collects the serial
CommandRaised ==
    /\ UNCHANGED <<sessVars, apiVars, config_data, origPath, lastInput, args_path>>
    /\ fpc = "for"
    /\ idx <= Len(serials)
    /\ command = "erasemem" /\ ~force
    /\ LET serial == serials[idx] IN
       /\ lastOutcome' = [lastOutcome EXCEPT ![serial] = "failed"]
       /\ lastRet' = [lastRet EXCEPT ![serial] = "raised"]
       /\ lastFailure' = "other"
       /\ next_serials' = Append(next_serials, serial)
       /\ roundFailed' = Append(roundFailed, serial)
       /\ calls' = [calls EXCEPT ![serial] = @ + 1]
       /\ prompted' = [prompted EXCEPT ![serial] = @ + 1]
    /\ idx' = idx + 1
    /\ UNCHANGED <<fpc, command, force, retrys, retry_count, serials,
                   exit_code, via_main, origSerials, rounds, sleeps, opened>>

\* all_sensors_command: the end of a round (lines 257-261)
EndRound ==
    /\ UNCHANGED <<sessVars, apiVars, config_data, origPath, lastFailure, lastInput, args_path>>
    /\ fpc = "for"
    /\ idx > Len(serials)
    /\ retry_count' = retry_count + 1
    /\ serials' = next_serials
    /\ fpc' = IF next_serials = <<>> THEN "return" ELSE "sleep"
    /\ UNCHANGED <<command, force, retrys, next_serials, idx, exit_code,
                   via_main, origSerials, calls, lastOutcome, lastRet, roundFailed,
                   rounds, sleeps, prompted, opened>>

\* all_sensors_command: time.sleep(5) is over
Sleep ==
    /\ UNCHANGED <<sessVars, apiVars, config_data, origPath, lastFailure, lastInput, args_path>>
    /\ fpc = "sleep"
    /\ sleeps' = sleeps + 1
    /\ fpc' = "while"
    /\ UNCHANGED <<command, force, retrys, retry_count, serials, next_serials,
                   idx, exit_code, via_main, origSerials, calls, lastOutcome, lastRet,
                   roundFailed, rounds, prompted, opened>>

\* all_sensors_command returns; main then falls off its end and the process
\* exits with status 0
Return ==
    /\ UNCHANGED <<sessVars, apiVars, config_data, origPath, lastFailure, lastInput, args_path>>
    /\ fpc = "return"
    /\ IF via_main
       THEN /\ exit_code' = {0}
            /\ fpc' = "exited"
       ELSE /\ fpc' = "returned"
            /\ UNCHANGED exit_code
    /\ UNCHANGED <<command, force, retrys, retry_count, serials, next_serials,
                   idx, via_main, origSerials, calls, lastOutcome, lastRet,
                   roundFailed, rounds, sleeps, prompted, opened>>

FleetNext ==
    \/ Main \/ CallAllSensors \/ While \/ Prompt \/ RunCommand \/ EraseDeclined
    \/ CommandRaised \/ EndRound \/ Sleep \/ Return

-----------------------------------------------------------------------------
(* sensor_command.py: _discover_and_connect, the discovery in detail        *)

\* number of advertisements the scanner delivers
MaxAdverts == 3

\* the devices that advertise: two whose names end alike, one other serial
\* and one that advertises no name
AdvDevices ==
    { [address |-> "A1", name |-> <<"0", "4", "5", "5">>],
      [address |-> "A2", name |-> <<"1", "4", "5", "5">>],
      [address |-> "A3", name |-> <<"0", "4", "5", "6">>],
      [address |-> "A4", name |-> <<>>] }

\* the serial suffixes a caller looks for
Suffixes == { <<"4", "5", "5">>, <<"5", "6">> }

\* str.endswith
EndsWith(name, suffix) ==
    /\ Len(name) >= Len(suffix)
    /\ SubSeq(name, Len(name) - Len(suffix) + 1, Len(name)) = suffix

\* detection_callback: device.name and device.name.endswith(end_of_serial)
Matches(device, suffix) ==
    device.name # <<>> /\ EndsWith(device.name, suffix)

\* SensorCommand(end_of_serial).__aenter__ is about to start the scanner
ScanSpecInit ==
    /\ fleetIdle /\ SessInit /\ op = "status"
    /\ end_of_serial \in Suffixes
    /\ device_found = FALSE
    /\ target_device = PyNone /\ device_address = PyNone
    /\ adverts = <<>> /\ call = EmptyDict /\ ncalls = 0

\* detection_callback: an advertisement is delivered while the scanner runs
DetectionCallback ==
    /\ scanning
    /\ Len(adverts) < MaxAdverts
    /\ \E device \in AdvDevices :
         /\ adverts' = Append(adverts, device)
         /\ IF Matches(device, end_of_serial)
            THEN target_device' = device /\ device_found' = TRUE
            ELSE UNCHANGED <<target_device, device_found>>
    /\ UNCHANGED <<fleetVars, sessVars, args_path, end_of_serial,
                   device_address, call, ncalls>>

\* wait_for(device_found.wait()) returned: the task resumes and reads
\* target_device; the finally clause then stops the scanner
WaitReturns ==
    /\ spc = "scan" /\ device_found
    /\ device_address' = target_device.address
    /\ spc' = "scan_stop"
    /\ UNCHANGED <<fleetVars, args_path, end_of_serial, device_found,
                   target_device, adverts, call, ncalls,
                   op, cur, set_time, is_connected, hello_ref, response_queue,
                   response, lastcmd, retval, log_id, last_offset,
                   fetched_files, result, sresult, excn, files,
                   link, notifying, scanning, owed, streaming, nframes,
                   written, ioerr, loop_end, streamlog, settled>>

\* wait_for timed out after 10 s with the event unset: RuntimeError
\* "... not found" is raised through the finally clause
WaitTimeout ==
    /\ spc = "scan" /\ ~device_found
    /\ excn' = "not found"
    /\ spc' = "scan_stop"
    /\ UNCHANGED <<fleetVars, args_path, apiVars,
                   op, cur, set_time, is_connected, hello_ref, response_queue,
                   response, lastcmd, retval, log_id, last_offset,
                   fetched_files, result, sresult, files,
                   link, notifying, scanning, owed, streaming, nframes,
                   written, ioerr, loop_end, streamlog, settled>>

\* finally: await scanner.stop() returned; the connection attempt begins, or
\* the exception leaves __aenter__
ScannerStopped ==
    /\ spc = "scan_stop"
    /\ scanning' = ScannerAfterWait
    /\ IF excn = "not found"
       THEN /\ result' = ErrorResult(excn)
            /\ spc' = "returned"
       ELSE /\ spc' = "connect"
            /\ UNCHANGED result
    /\ UNCHANGED <<fleetVars, args_path, apiVars,
                   op, cur, set_time, is_connected, hello_ref, response_queue,
                   response, lastcmd, retval, log_id, last_offset,
                   fetched_files, sresult, excn, files,
                   link, notifying, owed, streaming, nframes,
                   written, ioerr, loop_end, streamlog, settled>>

ScanSpecNext ==
    \/ ScanStart \/ DetectionCallback \/ WaitReturns \/ WaitTimeout
    \/ ScannerStopped

-----------------------------------------------------------------------------
(* sensor_command.py: a caller driving the SensorCommand methods directly   *)

\* number of method calls the caller makes
MaxCalls == 2

\* get_resource: the reference of its GET command
REF_GET == 105

\* subscribe_to_resource: the default of its reference parameter
DEFAULT_REFERENCE == 1

\* the resource path a caller passes (abbreviated)
PATH_RESOURCE == <<47, 77>>

\* the references a caller chooses for SUBSCRIBE and UNSUBSCRIBE
CallerReferences == {DEFAULT_REFERENCE, REF_HELLO}

\* the state arguments a caller passes to execute_command
CallerStates == {1, 2, 3}

\* subscribe_to_resource: the command it builds
SubscribeCommand(resource_path, reference) ==
    Command(GSP_CMD_SUBSCRIBE, reference, resource_path \o <<0>>)

\* unsubscribe_from_resource: the command it builds
UnsubscribeCommand(reference) == Command(GSP_CMD_UNSUBSCRIBE, reference, <<>>)

\* get_resource: the command it builds
GetCommand(resource_path) ==
    Command(GSP_CMD_GET, REF_GET, resource_path \o <<0>>)

\* execute_command(PUT_DATALOGGER_STATE, state=...): start_logging when
\* state == 1, stop_logging otherwise
LoggingCommand(state) == IF state = 1 THEN StartCommand ELSE StopCommand

\* the method calls a caller makes
Calls ==
    { [method |-> "get_status", reference |-> PyNone, state |-> PyNone],
      [method |-> "get_resource", reference |-> PyNone, state |-> PyNone] }
    \cup { [method |-> "subscribe_to_resource", reference |-> r,
            state |-> PyNone] : r \in CallerReferences }
    \cup { [method |-> "unsubscribe_from_resource", reference |-> r,
            state |-> PyNone] : r \in CallerReferences }
    \cup { [method |-> "execute_command", reference |-> PyNone,
            state |-> s] : s \in CallerStates }
    \cup { [method |-> "disconnect", reference |-> PyNone, state |-> PyNone] }

\* the result subscribe_to_resource, unsubscribe_from_resource and
\* get_resource build from the response of their command
ResourceResult(r, c) ==
    IF r.response_code = GSP_RESP_COMMAND_RESPONSE
    THEN LET base == CommandResult(r) IN
         IF c.method = "get_resource"
         THEN Update(base, [resource_path |-> PATH_RESOURCE,
                            data |-> Get(r, "command_data", <<>>)])
         ELSE IF c.method = "subscribe_to_resource"
         THEN Update(base, [reference |-> c.reference,
                            resource_path |-> PATH_RESOURCE])
         ELSE Update(base, [reference |-> c.reference])
    ELSE [success |-> FALSE, error |-> "Unexpected response code"]

\* a SensorCommand that was constructed and either entered with
\* set_time=False or not entered at all
ApiSpecInit ==
    /\ fleetIdle /\ args_path = <<>>
    /\ spc = "api" /\ op = "none" /\ cur = "" /\ set_time = FALSE
    /\ is_connected \in BOOLEAN
    /\ link = (IF is_connected THEN "up" ELSE "none")
    /\ notifying = is_connected
    /\ hello_ref = {} /\ response_queue = <<>>
    /\ response = EmptyDict /\ lastcmd = <<>> /\ retval = EmptyDict
    /\ log_id = 0 /\ last_offset = 0 /\ fetched_files = <<>>
    /\ result = EmptyDict /\ sresult = EmptyDict /\ excn = ""
    /\ files = NoFiles /\ scanning = FALSE
    /\ owed = <<>> /\ streaming = FALSE /\ nframes = 0
    /\ written = <<>> /\ ioerr = FALSE
    /\ loop_end = EmptyDict /\ streamlog = <<>> /\ settled = <<>>
    /\ apiIdle

\* the caller calls a method of the session: the method builds its command
\* and enters send_command
ApiCall ==
    /\ spc = "api"
    /\ ncalls < MaxCalls
    /\ ncalls' = ncalls + 1
    /\ \E c \in Calls :
         /\ call' = c
         /\ IF c.method = "disconnect"
            THEN /\ spc' = "close"
                 /\ UNCHANGED <<hello_ref, retval, lastcmd, cur, excn,
                                response_queue, written, owed, settled>>
            ELSE IF c.method = "get_status"
            THEN /\ hello_ref' = {REF_HELLO}
                 /\ retval' = EmptyDict
                 /\ BeginSend(HelloCommand, "hello")
            ELSE /\ UNCHANGED <<hello_ref, retval>>
                 /\ CASE c.method = "get_resource" ->
                           BeginSend(GetCommand(PATH_RESOURCE), "get_resource")
                      [] c.method = "subscribe_to_resource" ->
                           BeginSend(SubscribeCommand(PATH_RESOURCE, c.reference),
                                     "subscribe")
                      [] c.method = "unsubscribe_from_resource" ->
                           BeginSend(UnsubscribeCommand(c.reference),
                                     "unsubscribe")
                      [] c.method = "execute_command" ->
                           BeginSend(LoggingCommand(c.state), "logging")
    /\ UNCHANGED <<fleetVars, args_path, end_of_serial, device_found,
                   target_device, device_address, adverts,
                   op, set_time, is_connected, response, log_id, last_offset,
                   fetched_files, result, sresult, files, link, notifying,
                   scanning, streaming, nframes, ioerr, loop_end, streamlog>>

\* send_command returned its frame to the method: get_status goes on to its
\* GET, every other method returns its result to the caller
ApiReturned ==
    /\ spc = "got"
    /\ IF cur = "hello"
       THEN /\ retval' = Update(retval, HelloStatus(response))
            /\ BeginSend(DlStateCommand, "dlstate")
            /\ UNCHANGED result
       ELSE /\ result' = IF cur = "dlstate"
                         THEN DlStateStatus(retval, response)
                         ELSE IF cur = "logging"
                         THEN CommandResult(response)
                         ELSE ResourceResult(response, call)
            /\ spc' = "api"
            /\ UNCHANGED <<retval, cur, lastcmd, excn, response_queue,
                           written, owed, settled>>
    /\ UNCHANGED <<fleetVars, args_path, apiVars,
                   op, set_time, is_connected, hello_ref, response, log_id,
                   last_offset, fetched_files, sresult, files, link,
                   notifying, scanning, streaming, nframes, ioerr, loop_end,
                   streamlog>>

\* send_command raised: the exception reaches the caller (execute_command
\* turns it into an error result)
ApiRaised ==
    /\ spc = "raised"
    /\ result' = ErrorResult(excn)
    /\ spc' = "api"
    /\ UNCHANGED <<fleetVars, args_path, apiVars,
                   op, cur, set_time, is_connected, hello_ref, response_queue,
                   response, lastcmd, retval, log_id, last_offset,
                   fetched_files, sresult, excn, files,
                   link, notifying, scanning, owed, streaming, nframes,
                   written, ioerr, loop_end, streamlog, settled>>

\* disconnect() returned to the caller
ApiClosed ==
    /\ spc = "closed"
    /\ spc' = "api"
    /\ UNCHANGED <<fleetVars, args_path, apiVars,
                   op, cur, set_time, is_connected, hello_ref, response_queue,
                   response, lastcmd, retval, log_id, last_offset,
                   fetched_files, result, sresult, excn, files,
                   link, notifying, scanning, owed, streaming, nframes,
                   written, ioerr, loop_end, streamlog, settled>>

ApiSpecNext ==
    \/ ApiCall \/ ApiReturned \/ ApiRaised \/ ApiClosed
    \/ WriteDone \/ WriteFail \/ ReceiveResponse \/ CommandTimeout
    \/ Close \/ StopNotifyOk \/ StopNotifyFail \/ DisconnectOk \/ DisconnectFail
    \/ DeviceAnswer \/ DisconnectCallback

-----------------------------------------------------------------------------
(* Specifications                                                           *)

\* one tool-level operation on one serial
Init == fleetIdle /\ SessInit /\ apiIdle
Next == SessNext
Spec == Init /\ [][Next]_vars

\* the supervisor over a list of serials
FleetSpecInit == FleetInit /\ sessIdle /\ apiIdle
FleetSpecNext == FleetNext
FleetSpec == FleetSpecInit /\ [][FleetSpecNext]_vars

\* the discovery of _discover_and_connect, advertisement by advertisement
ScanSpec == ScanSpecInit /\ [][ScanSpecNext]_vars

\* a caller driving the methods of one SensorCommand
ApiSpec == ApiSpecInit /\ [][ApiSpecNext]_vars

-----------------------------------------------------------------------------
(* Claims                                                                   *)

Range(seq) == { seq[i] : i \in 1..Len(seq) }

\* the number of entries of seq equal to x
Count(seq, x) == Cardinality({ i \in 1..Len(seq) : seq[i] = x })

\* the session task has left the async with block (Close has run, or the
\* session was never entered)
Returned == spc = "returned"

\* C1: when the tool-level operation returns, a BLE connection that was
\* established has been torn down: the link is not up any more.
C1_TornDownOnReturn == Returned => link # "up"

\* C2: the frame send_command returns is a CommandResponse that carries the
\* reference of the command written.
C2_ResponseMatchesReference ==
    spc = "got" =>
        /\ response.response_code = GSP_RESP_COMMAND_RESPONSE
        /\ response.reference = lastcmd[2]

\* C3: while the device has not yet answered FETCH_LOG, a data frame that
\* arrives early is not taken as the response of the FETCH_LOG command.
C3_EarlyDataNotTakenAsResponse ==
    (spc = "got" /\ cur = "fetch" /\ owed # <<>>) =>
        response.response_code \notin {GSP_RESP_DATA, GSP_RESP_DATA_PART2}

\* serials still to be attempted in this or a later round
Pending ==
    IF fpc \in {"for", "asked"} THEN SubSeq(serials, idx, Len(serials))
    ELSE IF fpc \in {"while", "sleep"} THEN serials
    ELSE <<>>

Pos(s) == CHOOSE i \in 1..Len(origSerials) : origSerials[i] = s

C6_FailureListExact ==
    (fpc \in {"sleep", "return"} /\ retry_count = rounds /\ rounds > 0)
        => serials = roundFailed

\* C7: the process exits with status 0 exactly when no serial's operation
\* still fails at the end of the run.
C7_ExitCode ==
    fpc = "exited" =>
        (0 \in exit_code <=>
            \A s \in Range(origSerials) : lastOutcome[s] # "failed")

\* C8: in a fetch session that no exception ended, a FETCH_LOG answered with
\* a status makes the operation report success exactly when the status is 404.
C8_OnlyNotFoundIsBenign ==
    (Returned /\ op = "fetch" /\ excn = "" /\ "status_code" \in DOMAIN loop_end)
        => (Get(result, "success", FALSE)
                <=> loop_end.status_code = HTTP_NOT_FOUND)

\* C9: a fetch_log failure that carries no status code makes the fetch
\* operation report failure.
C9_NoStatusFailureSurfaced ==
    (/\ Returned /\ op = "fetch"
     /\ loop_end # EmptyDict
     /\ "status_code" \notin DOMAIN loop_end)
        => ~Get(result, "success", FALSE)

\* the commands written are FETCH_LOG 1..n followed by one PUT_SYSTEMMODE 5
FetchThenReset ==
    /\ written # <<>>
    /\ written[Len(written)] = SysModeCommand(5)
    /\ Count(written, SysModeCommand(5)) = 1
    /\ \A i \in 1..(Len(written) - 1) : written[i] = FetchCommand(i)

\* C10: in a fetch session that reports success PUT_SYSTEMMODE with mode 5
\* was written exactly once, after every FETCH_LOG and before Close began.
C10_SystemModeOnce ==
    /\ (Returned /\ op = "fetch" /\ Get(result, "success", FALSE))
           => FetchThenReset
    /\ (/\ op = "fetch" /\ excn = ""
        /\ spc \in {"close", "stop_notify", "disconnecting", "closed"})
           => FetchThenReset

\* C10 witness: a successful fetch session with one log fetched
C10_Witness ==
    /\ Returned /\ op = "fetch" /\ Get(result, "success", FALSE)
    /\ Len(fetched_files) = 1 /\ Len(written) = 3

\* the FETCH_LOG commands handed to write_gatt_char, in order
FetchLogs ==
    LET IsFetchLog(c) == c[1] = GSP_CMD_FETCH_LOG
    IN  SelectSeq(written, IsFetchLog)

\* C11: the FETCH_LOG commands of a session carry the log ids 1, 2, 3, ... in
\* this order, and every FETCH_LOG but the last was followed by a fetch_log
\* that succeeded: none is issued after a fetch_log that did not succeed.
C11_ConsecutiveLogIds ==
    /\ \A i \in 1..Len(FetchLogs) : get_uint_32(FetchLogs[i], 2) = i
    /\ Len(FetchLogs) <= Len(fetched_files) + 1

\* C11 witness: log 1 was fetched, FETCH_LOG 2 was answered 404 and the
\* session returned
C11_Witness ==
    /\ Returned /\ op = "fetch" /\ Len(FetchLogs) = 2
    /\ Len(fetched_files) = 1
    /\ Get(loop_end, "status_code", 0) = HTTP_NOT_FOUND

\* the frames of the stream that carry bytes to write: indices into streamlog
Writes == { k \in 1..Len(streamlog) : Len(streamlog[k]) > 4 }

\* the offset and the bytes of frame k of the stream
OffsetOf(k) ==
    streamlog[k][1] + 256 * streamlog[k][2] + 65536 * streamlog[k][3]
        + 16777216 * streamlog[k][4]
BytesOf(k) == SubSeq(streamlog[k], 5, Len(streamlog[k]))

\* the highest offset + length over the frames that carry bytes
Extent ==
    IF Writes = {} THEN 0
    ELSE LET k == CHOOSE k \in Writes :
                      \A j \in Writes : OffsetOf(j) + Len(BytesOf(j))
                                            <= OffsetOf(k) + Len(BytesOf(k))
         IN  OffsetOf(k) + Len(BytesOf(k))

\* the frames that wrote byte position i (1-based) of the file
Writers(i) ==
    { k \in Writes : OffsetOf(k) < i /\ i <= OffsetOf(k) + Len(BytesOf(k)) }

\* fetch_log has returned a result built after the streaming loop
StreamDone == spc = "fetch_ret" /\ Get(sresult, "success", FALSE)

\* C12: when fetch_log returns after streaming (no sink error), the file is
\* as long as the highest offset + length over the frames that carried bytes,
\* and every byte position a frame wrote holds the byte of the last frame
\* that wrote it.
C12_FileHoldsLastWrites ==
    StreamDone =>
        LET f == files[log_id] IN
        /\ f.exists
        /\ Len(f.data) = Extent
        /\ \A i \in 1..Len(f.data) :
               Writers(i) # {} =>
                   LET k == CHOOSE k \in Writers(i) :
                                 \A j \in Writers(i) : j <= k
                   IN  f.data[i] = BytesOf(k)[i - OffsetOf(k)]

\* C12 witness: two bytes at offset 0, then a frame rewriting offset 1
C12_Witness ==
    /\ StreamDone /\ Len(streamlog) = 2
    /\ Writes = {1, 2} /\ OffsetOf(1) = 0 /\ OffsetOf(2) = 1
    /\ files[log_id].data = <<65, 67>>

\* the frames of the stream that carry an offset
WithOffset == { k \in 1..Len(streamlog) : Len(streamlog[k]) >= 4 }

\* C13: the size a successful fetch_log reports is the highest offset carried
\* by a data frame of the stream.
C13_SizeIsHighestOffset ==
    (StreamDone /\ WithOffset # {}) =>
        /\ \A k \in WithOffset : OffsetOf(k) <= sresult.size
        /\ \E k \in WithOffset : OffsetOf(k) = sresult.size

\* the stream ended with frame k: no bytes behind the offset
IsEndOfLog(k) == Len(streamlog[k]) = 4

\* the streaming loop has taken an end-of-log frame with an offset > 0 as its
\* last frame
EndedByEndOfLog ==
    /\ spc \in {"sleep", "fetch_ret"}
    /\ streamlog # <<>>
    /\ IsEndOfLog(Len(streamlog))
    /\ OffsetOf(Len(streamlog)) > 0

\* C14 as stated: a stream ended by an empty frame at offset N > 0 leaves a
\* file of N bytes.
C14_FileSizeIsN ==
    (EndedByEndOfLog /\ StreamDone) =>
        Len(files[log_id].data) = OffsetOf(Len(streamlog))

\* C14, amended: an empty data frame at offset N > 0 is the last frame the
\* streaming loop takes, fetch_log then reports success with size N, and the
\* file has N bytes when the frames written before it extend to N.
C14_EndOfLogStops ==
    /\ \A k \in 1..Len(streamlog) :
           (IsEndOfLog(k) /\ OffsetOf(k) > 0) => k = Len(streamlog)
    /\ EndedByEndOfLog =>
           /\ last_offset = OffsetOf(Len(streamlog))
           /\ spc = "fetch_ret" =>
                  /\ Get(sresult, "success", FALSE)
                  /\ sresult.size = OffsetOf(Len(streamlog))
                  /\ Extent = OffsetOf(Len(streamlog))
                         => Len(files[log_id].data) = OffsetOf(Len(streamlog))

\* C14 witness: two bytes at offset 0, then the end-of-log frame at offset 2
C14_Witness ==
    /\ EndedByEndOfLog /\ StreamDone /\ Len(streamlog) = 2
    /\ OffsetOf(2) = 2 /\ sresult.size = 2
    /\ files[log_id].data = <<65, 66>>

\* C15: when the streaming loop ends because no frame arrived in time,
\* fetch_log does not report success, and the file keeps its bytes.
C15_StreamTimeoutIsError ==
    [][(spc = "stream" /\ response_queue = <<>> /\ spc' = "fetch_ret")
          => (~Get(sresult', "success", FALSE) /\ files' = files)]_vars

\* fetch_log has returned on an initial response whose status is not 200
InitialStatusNotOk ==
    /\ spc = "fetch_ret"
    /\ Get(response, "response_code", 0) = GSP_RESP_COMMAND_RESPONSE
    /\ Get(response, "status_code", HTTP_OK) # HTTP_OK

\* C16: on an initial response with a status other than 200 fetch_log returns
\* an unsuccessful result that carries the status; it took no data frame
\* from the queue and the output file was not created.
C16_NotOkReadsNothing ==
    InitialStatusNotOk =>
        /\ ~Get(sresult, "success", TRUE)
        /\ Get(sresult, "status_code", 0) = response.status_code
        /\ streamlog = <<>>
        /\ ~files[log_id].exists
        /\ \A i \in 1..Len(files) : i >= log_id => files[i] = NoFiles[i]

\* C16 witness: FETCH_LOG 1 answered with 404
C16_Witness ==
    /\ InitialStatusNotOk /\ log_id = 1
    /\ response.status_code = HTTP_NOT_FOUND

\* the number of PUT_UTCTIME commands handed to write_gatt_char
UtcTimeWrites ==
    Cardinality({ i \in 1..Len(written) : written[i][1] = GSP_CMD_PUT_UTCTIME })

\* C19: a status, config, start or stop session writes PUT_UTCTIME once, as
\* its first command and with notifications enabled, before the body of the
\* session runs; a fetch or erase session never writes it.
C19_TimeSyncPolicy ==
    /\ op \in {"fetch", "erase"} => UtcTimeWrites = 0
    /\ op \in {"status", "config", "start", "stop"} =>
           /\ UtcTimeWrites <= 1
           /\ written # <<>> => written[1][1] = GSP_CMD_PUT_UTCTIME
           /\ spc = "body" => (UtcTimeWrites = 1 /\ Len(written) = 1)
           /\ (Len(written) = 1 /\ spc = "writing" /\ link = "up")
                  => notifying

\* C19 witness: a start session that wrote PUT_UTCTIME and then its command
C19_Witness ==
    /\ Returned /\ op = "start" /\ Len(written) = 2
    /\ written[1][1] = GSP_CMD_PUT_UTCTIME
    /\ written[2] = StartCommand
    /\ Get(result, "success", FALSE)

\* C20: when the scan ends without a matching advertisement, opening the
\* session fails with a "not found" error, the scanner is stopped, no
\* connection was made and no command was written.
C20_NotFound ==
    excn = "not found" =>
        /\ Returned
        /\ ~scanning
        /\ link = "none" /\ ~is_connected /\ ~notifying
        /\ written = <<>>
        /\ result = [success |-> FALSE, error |-> "not found"]

\* C20 witness: the session of a serial nobody advertises has returned
C20_Witness == Returned /\ excn = "not found" /\ written = <<>>

\* the paths, each followed by a NUL byte
RECURSIVE NulTerminated(_)
NulTerminated(paths) ==
    IF paths = <<>> THEN <<>>
    ELSE NulTerminated(SubSeq(paths, 1, Len(paths) - 1))
             \o paths[Len(paths)] \o <<0>>

\* C17: the payload every configure invocation builds is the caller's paths,
\* each NUL-terminated, followed by one NUL-terminated "/Time/Detailed".
C17_ConfigPayload ==
    config_data # <<>> =>
        config_data = NulTerminated(origPath) \o PATH_TIME_DETAILED \o <<0>>

\* the answers that, trimmed and lower-cased, read "yes" or "y"
Accepting == { <<"y">>, <<"Y", "E", "S">>, <<" ", "y", " ">> }

\* C18: without --force a session is opened for a serial only on an answer
\* that, trimmed and lower-cased, is "yes" or "y"; with --force no prompt is
\* shown and every call opens the session.
C18_EraseNeedsConsent ==
    /\ []((command = "erasemem" /\ force) =>
              \A s \in Serials : prompted[s] = 0 /\ opened[s] = calls[s])
    /\ [][(command = "erasemem" /\ ~force) =>
              \A s \in Serials :
                  opened'[s] # opened[s] =>
                      /\ fpc = "asked" /\ lastInput \in Accepting
                      /\ prompted[s] > opened[s]]_vars

\* C18 witness: an operator declined for the first serial and confirmed for
\* the second, whose session was opened
C18_Witness ==
    /\ command = "erasemem" /\ ~force /\ Len(origSerials) = 2
    /\ prompted[origSerials[1]] = 1 /\ opened[origSerials[1]] = 0
    /\ prompted[origSerials[2]] = 1 /\ opened[origSerials[2]] = 1

\* the body of the async with has not run: no method of the body has sent
\* a command
BodyNotRun ==
    /\ cur \in {"", "set_utc_time"}
    /\ \A i \in 1..Len(written) : written[i] = UtcTimeCommand(UtcNow)
    /\ hello_ref = {} /\ log_id = 0 /\ retval = EmptyDict

\* C21: when client.connect(), start_notify or the connect-time PUT_UTCTIME
\* raises, opening the session fails with "Failed to connect" and the body of
\* the async with is never executed; a session that returned without running
\* its body failed with "Failed to connect" or with "not found".
C21_FailedConnectNoBody ==
    /\ excn = "Failed to connect" =>
           /\ Returned
           /\ result = [success |-> FALSE, error |-> "Failed to connect"]
           /\ BodyNotRun
    /\ (spc = "raised" /\ cur = "set_utc_time") => BodyNotRun
    /\ (Returned /\ BodyNotRun) => excn \in {"Failed to connect", "not found"}

\* C21 witness: PUT_UTCTIME was written at connect time, raised, and the
\* operation returned the connection failure
C21_Witness ==
    /\ Returned /\ excn = "Failed to connect"
    /\ written = <<UtcTimeCommand(UtcNow)>>
    /\ link # "none"

\* the positions of the task inside disconnect()
Closing == {"close", "stop_notify", "disconnecting"}

\* how far disconnect() has come
ClosePos(pc) ==
    CASE pc = "close" -> 0
      [] pc = "stop_notify" -> 1
      [] pc = "disconnecting" -> 2
      [] OTHER -> 3

\* C22: disconnect(), called by __aexit__, always completes without raising:
\* no step of it goes back or leaves it other than by its return, the
\* pending exception and the result of the body stay untouched, whether the transport already
\* signalled the disconnect, stop_notify raised or client.disconnect() raised,
\* and in each of its positions it has a step to take.
C22_CloseNeverRaises ==
    /\ [][(spc \in Closing) =>
            (/\ spc' \in Closing \cup {"closed"}
             /\ ClosePos(spc') >= ClosePos(spc)
             /\ excn' = excn /\ result' = result)]_vars
    /\ [](spc \in Closing =>
            ENABLED (Close \/ StopNotifyOk \/ StopNotifyFail
                       \/ DisconnectOk \/ DisconnectFail))

\* C22 witness: stop_notify raised and disconnect() returned all the same
C22_Witness ==
    /\ spc = "closed" /\ is_connected /\ notifying /\ link = "up"
    /\ excn = ""

\* the task is blocked in wait_for(response_queue.get()): in send_command
\* or in the streaming loop of fetch_data, with nothing queued
WaiterBlocked == spc \in {"waiting", "stream"} /\ response_queue = <<>>

\* C23: when the link drops while send_command or the streaming loop of
\* fetch_data waits on the queue, the disconnect callback ends the wait at
\* that point with a Disconnected error; the waiter is not left blocked
\* until its timeout.
C23_DisconnectUnblocksWaiter ==
    [][(WaiterBlocked /\ link = "up" /\ link' = "lost")
          => (/\ spc' \in {"raised", "fetch_ret"}
              /\ \/ excn' = "Disconnected"
                 \/ sresult' = [success |-> FALSE, error |-> "Disconnected"])]_vars

\* the commands written whose send_command has neither returned a frame nor
\* raised: the outstanding commands
Outstanding == SubSeq(written, Len(settled) + 1, Len(written))

CleanlyClosed == spc \in {"closed", "returned"} /\ excn = "" /\ ~BodyNotRun

\* C25: the wait of every command written ends with one command response
\* delivered to its caller or with its cancellation (timeout, error); after
\* a clean close no command is left outstanding and no command response is
\* left undelivered in the queue.
C25_EveryCommandSettled ==
    /\ \A i \in 1..Len(settled) :
           \/ settled[i].how \in {"timeout", "error"}
           \/ /\ settled[i].how = "response"
              /\ settled[i].code = GSP_RESP_COMMAND_RESPONSE
    /\ CleanlyClosed =>
           /\ Outstanding = <<>>
           /\ \A k \in 1..Len(response_queue) :
                  response_queue[k].response_code # GSP_RESP_COMMAND_RESPONSE

\* a DataFrame or DataFramePart2 as queued by _notification_handler
IsDataFrame(r) == r.response_code \in {GSP_RESP_DATA, GSP_RESP_DATA_PART2}

\* no fetch_data call is in progress: neither its FETCH_LOG command nor its
\* streaming loop
NoFetchStream == cur # "fetch"

\* C26: a DataFrame or DataFramePart2 that arrives while no fetch stream is
\* active is discarded: send_command never returns it as the response of a
\* command, and no wait of a command other than FETCH_LOG ended with one.
C26_StrayDataDiscarded ==
    /\ (spc = "got" /\ NoFetchStream) => ~IsDataFrame(response)
    /\ \A i \in 1..Len(settled) :
           (settled[i].reference # REF_FETCH /\ settled[i].how = "response")
               => settled[i].code \notin {GSP_RESP_DATA, GSP_RESP_DATA_PART2}

\* get_status has taken a HELLO response whose body is the protocol_version
\* byte alone and goes on to GET /Mem/DataLogger/State
HelloVersionOnly ==
    /\ cur = "dlstate" /\ spc \in {"writing", "waiting"}
    /\ Get(response, "response_code", PyNone) = GSP_RESP_COMMAND_RESPONSE
    /\ response.reference = REF_HELLO
    /\ Len(response.raw_data) = 3

\* C27: from a HELLO response whose body is only the protocol_version byte,
\* get_status builds, without raising, a status that carries that
\* protocol_version and empty values for serial number, product name,
\* dfu-mac, app name and app version.
C27_VersionOnlyHello ==
    HelloVersionOnly =>
        /\ "protocol_version" \in DOMAIN retval
        /\ retval.protocol_version = response.raw_data[3]
        /\ \A k \in {"serial_number", "product_name", "dfu_mac", "app_name",
                     "app_version"} : Get(retval, k, PyNone) = <<>>

\* the frame is not a CommandResponse with status 200
GetFailed(r) ==
    \/ r.response_code # GSP_RESP_COMMAND_RESPONSE
    \/ Get(r, "status_code", 0) # HTTP_OK

\* C28: when HELLO succeeded and the frame returned for
\* GET /Mem/DataLogger/State is not a CommandResponse or carries a status
\* other than 200, get_status returns the HELLO fields unchanged, no dlstate,
\* success = False and an error description.
C28_DlStateFailureKeepsHello ==
    [][(/\ spc = "got" /\ cur = "dlstate"
        /\ Get(retval, "success", FALSE)
        /\ GetFailed(response))
          => (/\ spc' = "close"
              /\ \A k \in DOMAIN retval \ {"success"} :
                     k \in DOMAIN result' /\ result'[k] = retval[k]
              /\ "protocol_version" \in DOMAIN result'
              /\ "dlstate" \notin DOMAIN result'
              /\ "success" \in DOMAIN result' /\ result'.success = FALSE
              /\ "error" \in DOMAIN result')]_vars

\* C28 witness: HELLO was parsed, GET was answered by a frame that is not a
\* CommandResponse, and get_status has returned
C28_Witness ==
    /\ op = "status" /\ cur = "dlstate" /\ spc = "close"
    /\ response.response_code = GSP_RESP_DATA
    /\ Get(result, "protocol_version", PyNone) = 1
    /\ result.success = FALSE

\* the payload is a path without NUL bytes followed by one NUL byte
PathThenNul(payload) ==
    /\ Len(payload) >= 1
    /\ payload[Len(payload)] = 0
    /\ \A k \in 1..(Len(payload) - 1) : payload[k] # 0

\* C29: every GET and SUBSCRIBE command written carries as payload the
\* resource path followed by exactly one NUL byte, the GET of get_status
\* included.
C29_PathNulTerminated ==
    \A i \in 1..Len(written) :
        written[i][1] \in {GSP_CMD_GET, GSP_CMD_SUBSCRIBE}
            => PathThenNul(From(written[i], 2))

\* the serial the command function was last called for in this round
LastCalled == serials[idx - 1]

\* C30: a serial whose operation failed because of a protocol error
\* (malformed frame, unknown response code, truncated payload) is not
\* collected for another round; a serial that failed otherwise is.
C30_ProtocolErrorNotRetried ==
    (fpc \in {"for", "asked"} /\ idx > 1) =>
        /\ lastFailure = "protocol" =>
               \A k \in 1..Len(next_serials) : next_serials[k] # LastCalled
        /\ lastFailure = "other" =>
               \E k \in 1..Len(next_serials) : next_serials[k] = LastCalled

\* the matching advertisements delivered, in order
MatchingAdverts ==
    SelectSeq(adverts, LAMBDA device : Matches(device, end_of_serial))

\* C31: the connection attempt goes to the device of the first advertisement
\* whose name ends with the target suffix, also when further matching
\* advertisements were delivered before the waiting task resumed, and the
\* scanner is stopped when it begins.
C31_ConnectsToFirstMatch ==
    spc = "connect" =>
        /\ MatchingAdverts # <<>>
        /\ device_address = MatchingAdverts[1].address
        /\ ~scanning

\* C32: the status word is suppressed for the HELLO response only: the
\* CommandResponse returned for any other command (SUBSCRIBE and UNSUBSCRIBE
\* with a caller-chosen reference included, also after get_status has run)
\* carries the 16-bit little-endian status word of bytes 2..3 and the data
\* from byte 4 on.
C32_StatusWordOnlySuppressedForHello ==
    (/\ spc = "got"
     /\ lastcmd[1] # GSP_CMD_HELLO
     /\ response.response_code = GSP_RESP_COMMAND_RESPONSE
     /\ Len(response.raw_data) >= 4)
        => /\ response.status_code = get_uint_16(response.raw_data, 2)
           /\ response.command_data = From(response.raw_data, 4)

\* C34: execute_command(PUT_DATALOGGER_STATE, state=s) writes the
\* PUT_DATALOGGER_STATE command whose state byte is s, for s = 3 (Logging,
\* start) and s = 2 (Ready, stop).
C34_StateByteIsArgument ==
    (/\ cur = "logging" /\ spc \in {"writing", "waiting"}
     /\ call.state \in {2, 3})
        => /\ lastcmd[1] = GSP_CMD_PUT_DATALOGGER_STATE
           /\ From(lastcmd, 2) = <<call.state>>
           /\ written[Len(written)] = lastcmd

\* the streaming loop has just taken a data frame whose payload is shorter
\* than the 4-byte offset and fetch_data is returning
ShortFrameEndedStream ==
    /\ spc = "fetch_ret" /\ cur = "fetch" /\ ~ioerr
    /\ streamlog # <<>>
    /\ Len(streamlog[Len(streamlog)]) < 4

\* C33: a data frame of the stream whose payload is shorter than the 4-byte
\* offset header is a protocol error: fetch_data then returns an error
\* result, not success.
C33_ShortFrameIsError ==
    ShortFrameEndedStream => ~Get(sresult, "success", FALSE)

\* q is an initial part of r
IsPrefix(q, r) == Len(q) <= Len(r) /\ SubSeq(r, 1, Len(q)) = q

\* C35: send_command discards every frame that is queued when it writes its
\* command; until it returns the queue only grows at its end, and the frame
\* it returns is the first of the queue: the first frame enqueued after the
\* clearing, never a frame left over from before.
C35_ReturnsFirstFrameAfterClearing ==
    [][/\ (written' # written) => (response_queue' = <<>>)
       /\ (spc \in {"writing", "waiting"} /\ spc' \in {"writing", "waiting"})
             => IsPrefix(response_queue, response_queue')
       /\ (spc = "waiting" /\ spc' = "got")
             => (response_queue # <<>> /\ response' = Head(response_queue))]_vars

\* C35 witness: the device emitted two data frames, the streaming loop took
\* one, the other was still queued when PUT_SYSTEMMODE was sent, and
\* send_command returned the response of the device, with nothing left queued
C35_Witness ==
    /\ cur = "sysmode" /\ spc = "got"
    /\ nframes = 2 /\ Len(streamlog) = 1
    /\ Len(settled) = 2 /\ settled[1].code = GSP_RESP_COMMAND_RESPONSE
    /\ response.response_code = GSP_RESP_COMMAND_RESPONSE
    /\ response.reference = REF_SYSMODE
    /\ response_queue = <<>>

\* send_command has just refused a command on a session that is not
\* connected
NotConnectedRaised == spc = "raised" /\ excn = "Not connected to device"

\* C36: whenever the session is not connected (never connected, closed by
\* disconnect(), or dropped by the transport), send_command raises
\* "Not connected", leaves the response queue unchanged and writes nothing:
\* here for the call that follows a disconnect() that has returned.
C36_ClosedSessionSendsNothing ==
    [][(spc = "api" /\ call \in Calls /\ call.method = "disconnect"
          /\ spc' \notin {"api", "close"})
         => /\ NotConnectedRaised'
            /\ response_queue' = response_queue
            /\ written' = written]_vars

\* C37: after disconnect() has returned on a session that was connected, the
\* session is not connected (is_connected is false) and the transport has
\* been asked to disconnect (the link is no longer up), also when
\* stop_notify raised.
C37_CloseDisconnects ==
    (spc = "closed" /\ link # "none") => (~is_connected /\ link # "up")

\* C38: the supervisor waits 5 s only between rounds: every wait is followed
\* by a retry round, so a run that has ended made fewer waits than rounds
\* (none at all when the retry count is 0).
C38_WaitOnlyBetweenRounds ==
    fpc \in {"returned", "exited"} => sleeps < rounds

====
